---- MODULE Spec2Model ----
(***************************************************************************)
(* A model of .github/workflows/generate_lkg.py: the consolidation of the  *)
(* per-job "pip freeze" files of a CI matrix into two requirement texts     *)
(* (lkg.txt for the test jobs, lkg-notebook.txt for the notebook jobs).     *)
(*                                                                         *)
(* Representation.                                                          *)
(*  - A file name and a line of a file are sequences of strings, the parts  *)
(*    the two regular expressions cut them into.                            *)
(*  - A packaging Version is its release tuple <<major, minor>>; parse and  *)
(*    VersionStr convert between the text and the Version.                  *)
(*  - A marker text is the sequence of its tokens; a token is the record    *)
(*    [k, a]: k is "(", ")", "and", "or" or the left part of a comparison,  *)
(*    a its quoted right part.                                              *)
(*  - None is a record with some = FALSE.                                   *)
(*  - The sorted list of lines a get_reqs call returns is the bag of its    *)
(*    lines (sorted() maps equal bags to equal lists).                      *)
(*  - A Python set or dict has no specified iteration order: where the code *)
(*    builds a text or visits keys by iterating one, the action draws the   *)
(*    order with \E.                                                        *)
(*  - An uncaught exception unwinds make_req_files: its locals are gone,    *)
(*    and the state keeps the exception only.                               *)
(***************************************************************************)
EXTENDS Integers, Sequences, FiniteSets, Bags, TLC

VARIABLES pc, nread, meta, kind, todo, req, reverse_map, os_constraints,
          all_constraints, out, written, err

vars == <<pc, nread, meta, kind, todo, req, reverse_map, os_constraints,
          all_constraints, out, written, err>>

\* Bound: the number of lines read over the whole requirements directory.
MaxLines == 3

\* Bound: the number of Python versions (3.8, 3.9, ...) of the job matrices
\* get_reqs starts from in ReqsSpec.
MaxPy == 4

----------------------------------------------------------------------------
\* Texts and versions

Kinds == {"tests", "notebooks"}

\* The operating systems the test file name pattern accepts.
OSes == {"macos", "ubuntu", "windows"}

platform_map == [macos |-> "Darwin", ubuntu |-> "Linux", windows |-> "Windows"]

\* The version texts met in file names and requirement lines.
VersionStr ==
  [v \in {<<3, 8>>, <<3, 9>>, <<3, 10>>, <<3, 11>>, <<3, 12>>, <<3, 13>>,
          <<1, 9>>, <<1, 10>>, <<2, 0>>} |->
     CASE v = <<3, 8>>  -> "3.8"
       [] v = <<3, 9>>  -> "3.9"
       [] v = <<3, 10>> -> "3.10"
       [] v = <<3, 11>> -> "3.11"
       [] v = <<3, 12>> -> "3.12"
       [] v = <<3, 13>> -> "3.13"
       [] v = <<1, 9>>  -> "1.9"
       [] v = <<1, 10>> -> "1.10"
       [] v = <<2, 0>>  -> "2.0"]

\* packaging.version.parse: the Version a text denotes.
parse(s) == CHOOSE v \in DOMAIN VersionStr : VersionStr[v] = s

\* Version.__lt__: release tuples compare lexicographically.
VersionLt(a, b) == a[1] < b[1] \/ (a[1] = b[1] /\ a[2] < b[2])

VersionLe(a, b) == a = b \/ VersionLt(a, b)

\* min(...) / max(...) of a non-empty set of Versions.
MinVersion(S) == CHOOSE v \in S : \A u \in S : VersionLe(v, u)

MaxVersion(S) == CHOOSE v \in S : \A u \in S : VersionLe(u, v)

\* Python None, in the shape of the optional values of the model.
None == [some |-> FALSE, constraint |-> <<>>, needs_paren |-> FALSE]

\* The Python versions of the file names of the model.
PyTexts == {"3.9", "3.10", "3.11"}

\* The job types of the file names of the model.
JobTypes == {"a"}

TestFiles ==
  {<<"tests", o, "latest", p, t, "requirements.txt">> :
     o \in OSes, p \in PyTexts, t \in JobTypes}

NotebookFiles ==
  {<<"notebooks", t, p, "requirements.txt">> : t \in JobTypes, p \in PyTexts}

\* Names that match neither pattern.
OtherFiles == {<<"README.md">>}

FileNames == TestFiles \cup NotebookFiles \cup OtherFiles

\* Lines of pip freeze output, and one line that is not name==version.
ReqLines == {<<"foo", "==", "1.9">>, <<"foo", "==", "1.10">>, <<"bar", "==", "2.0">>}

OtherLines == {<<"# comment">>}

Lines == ReqLines \cup OtherLines

----------------------------------------------------------------------------
\* make_req_files: classification and collection

FileParts(os, py_version, type) ==
  [os |-> os, py_version |-> py_version, type |-> type]

\* re.search(file_regex, file): the groups of a match, or no match.
file_match(file) ==
  IF /\ Len(file) = 6
     /\ file[1] = "tests"
     /\ file[2] \in OSes
     /\ file[3] = "latest"
     /\ file[4] \in {VersionStr[v] : v \in {w \in DOMAIN VersionStr : w[1] = 3}}
     /\ file[6] = "requirements.txt"
  THEN [some |-> TRUE, group2 |-> TRUE, group6 |-> FALSE,
        os |-> file[2], py |-> file[4], type |-> file[5]]
  ELSE IF /\ Len(file) = 4
          /\ file[1] = "notebooks"
          /\ file[3] \in {VersionStr[v] : v \in {w \in DOMAIN VersionStr : w[1] = 3}}
          /\ file[4] = "requirements.txt"
  THEN [some |-> TRUE, group2 |-> FALSE, group6 |-> TRUE,
        os |-> "ubuntu", py |-> file[3], type |-> file[2]]
  ELSE [some |-> FALSE, group2 |-> FALSE, group6 |-> FALSE,
        os |-> "", py |-> "", type |-> ""]

\* re.search(req_regex, line): the groups of a match, or no match.
req_match(line) ==
  IF Len(line) = 3 /\ line[2] = "=="
  THEN [some |-> TRUE, group1 |-> line[1], group2 |-> line[3]]
  ELSE [some |-> FALSE, group1 |-> "", group2 |-> ""]

\* d[k] of a defaultdict: the value, or the default a first access creates.
DGet(d, k, default) == IF k \in DOMAIN d THEN d[k] ELSE default

\* d[k] = val
DSet(d, k, val) == [x \in DOMAIN d \cup {k} |-> IF x = k THEN val ELSE d[x]]

\* CollectionMetadata(set(), defaultdict(set), set(), defaultdict(...))
EmptyMetadata ==
  [all_file_parts |-> {}, py_version_oses |-> <<>>,
   all_py_versions |-> {}, reqs |-> <<>>]

\* The three set additions every line of a classified file makes.
AddFileParts(m, file_parts) ==
  [m EXCEPT
     !.all_file_parts = @ \cup {file_parts},
     !.all_py_versions = @ \cup {file_parts.py_version},
     !.py_version_oses =
        DSet(@, file_parts.py_version,
             DGet(@, file_parts.py_version, {}) \cup {file_parts.os})]

\* metadata.reqs[name][version].add(file_parts)
AddReq(m, name, version, file_parts) ==
  [m EXCEPT
     !.reqs = DSet(@, name,
                   DSet(DGet(@, name, <<>>), version,
                        DGet(DGet(@, name, <<>>), version, {}) \cup {file_parts}))]

NoError == [exc |-> "", lineno |-> 0, file |-> <<>>, line |-> <<>>]

NoText == [some |-> FALSE, text |-> EmptyBag]

\* The exception leaves the program: the frames of make_req_files and
\* get_reqs are unwound and nothing is written.
Raise(exc, lineno, file, line) ==
  /\ pc' = "failed"
  /\ err' = [exc |-> exc, lineno |-> lineno, file |-> file, line |-> line]
  /\ meta' = [k \in Kinds |-> EmptyMetadata]
  /\ kind' = "tests"
  /\ todo' = {}
  /\ req' = ""
  /\ reverse_map' = <<>>
  /\ os_constraints' = <<>>
  /\ all_constraints' = EmptyBag
  /\ out' = [k \in Kinds |-> NoText]
  /\ UNCHANGED <<nread, written>>

\* One iteration of the loop over the lines of the files.
ReadLine(file, line) ==
  /\ pc = "collect"
  /\ nread < MaxLines
  /\ LET match == req_match(line)
         fm == file_match(file)
         k == IF fm.group2 THEN "tests" ELSE "notebooks"
         file_parts == FileParts(fm.os, parse(fm.py), fm.type)
     IN IF ~fm.some
        THEN Raise("AttributeError", 142, file, line)
        ELSE IF ~match.some
        THEN Raise("AttributeError", IF fm.group2 THEN 149 ELSE 157, file, line)
        ELSE /\ meta' = [meta EXCEPT
                           ![k] = AddReq(AddFileParts(@, file_parts),
                                         match.group1, match.group2, file_parts)]
             /\ nread' = nread + 1
             /\ UNCHANGED <<pc, kind, todo, req, reverse_map, os_constraints,
                            all_constraints, out, written, err>>

----------------------------------------------------------------------------
\* The constraint texts

Tok(k, a) == [k |-> k, a |-> a]

\* The orders in which a set can be iterated.
Perms(S) ==
  {s \in [1..Cardinality(S) -> S] :
     \A i, j \in 1..Cardinality(S) : i # j => s[i] # s[j]}

constraint_string(constraint, needs_paren) ==
  [some |-> TRUE, constraint |-> constraint, needs_paren |-> needs_paren]

constraint_to_string(cstr, in_and) ==
  IF cstr.needs_paren /\ in_and
  THEN <<Tok("(", "")>> \o cstr.constraint \o <<Tok(")", "")>>
  ELSE cstr.constraint

\* inds_contiguous with the assertion compiled away (python -O).
inds_contiguous_unchecked(versions, all_py_versions) == TRUE

\* The assertion of version_range: the indices of versions in the sorted
\* all_py_versions are min(inds) .. max(inds).
inds_contiguous(versions, all_py_versions) ==
  LET version_inds == [v \in all_py_versions |->
                         Cardinality({u \in all_py_versions : VersionLt(u, v)})]
      inds == {version_inds[v] : v \in versions}
      lo == CHOOSE i \in inds : \A j \in inds : i <= j
      hi == CHOOSE i \in inds : \A j \in inds : j <= i
  IN inds = lo..hi

\* version_range with the upper bound taken from the wrong end of versions.
version_range_upper_min(versions, all_py_versions) ==
  LET min_version == MinVersion(all_py_versions)
      max_version == MaxVersion(all_py_versions)
  IN IF min_version \in versions
     THEN IF max_version \in versions
          THEN None
          ELSE constraint_string(
                 <<Tok("python_version<=", VersionStr[MinVersion(versions)])>>, FALSE)
     ELSE IF max_version \in versions
     THEN constraint_string(
            <<Tok("<=python_version", VersionStr[MinVersion(versions)])>>, FALSE)
     ELSE IF Cardinality(versions) = 1
     THEN constraint_string(
            <<Tok("python_version==", VersionStr[CHOOSE v \in versions : TRUE])>>, FALSE)
     ELSE constraint_string(
            <<Tok("<=python_version", VersionStr[MinVersion(versions)]),
              Tok("and", ""),
              Tok("python_version<=", VersionStr[MaxVersion(versions)])>>, FALSE)

\* version_range without the test of the upper end: no constraint as soon as
\* the lowest Python version is among versions.
version_range_no_upper_test(versions, all_py_versions) ==
  LET min_version == MinVersion(all_py_versions)
      max_version == MaxVersion(all_py_versions)
  IN IF min_version \in versions
     THEN None
     ELSE IF max_version \in versions
     THEN constraint_string(
            <<Tok("<=python_version", VersionStr[MinVersion(versions)])>>, FALSE)
     ELSE IF Cardinality(versions) = 1
     THEN constraint_string(
            <<Tok("python_version==", VersionStr[CHOOSE v \in versions : TRUE])>>, FALSE)
     ELSE constraint_string(
            <<Tok("<=python_version", VersionStr[MinVersion(versions)]),
              Tok("and", ""),
              Tok("python_version<=", VersionStr[MaxVersion(versions)])>>, FALSE)

\* version_range past its assertion; versions is the list of a group of
\* os_constraints, which holds no version twice.
version_range(versions, all_py_versions) ==
  LET min_version == MinVersion(all_py_versions)
      max_version == MaxVersion(all_py_versions)
  IN IF min_version \in versions
     THEN IF max_version \in versions
          THEN None
          ELSE constraint_string(
                 <<Tok("python_version<=", VersionStr[MaxVersion(versions)])>>, FALSE)
     ELSE IF max_version \in versions
     THEN constraint_string(
            <<Tok("<=python_version", VersionStr[MinVersion(versions)])>>, FALSE)
     ELSE IF Cardinality(versions) = 1
     THEN constraint_string(
            <<Tok("python_version==", VersionStr[CHOOSE v \in versions : TRUE])>>, FALSE)
     ELSE constraint_string(
            <<Tok("<=python_version", VersionStr[MinVersion(versions)]),
              Tok("and", ""),
              Tok("python_version<=", VersionStr[MaxVersion(versions)])>>, FALSE)

\* ' or '.join(constraints)
RECURSIVE JoinOr(_)
JoinOr(constraints) ==
  IF Len(constraints) = 1
  THEN <<constraints[1]>>
  ELSE <<constraints[1], Tok("or", "")>> \o JoinOr(Tail(constraints))

\* os_constraint; oses is the set in the order its iteration yields.
os_constraint(oses, all_oses) ==
  IF Len(oses) = Cardinality(all_oses)
  THEN None
  ELSE LET constraints == [i \in 1..Len(oses) |->
                             Tok("platform_system==", platform_map[oses[i]])]
       IN IF Len(oses) = 1
          THEN constraint_string(<<constraints[1]>>, FALSE)
          ELSE constraint_string(
                 <<Tok("(", "")>> \o JoinOr(constraints) \o <<Tok(")", "")>>, TRUE)

\* combined_constraint; the text it returns is an optional value too.
combined_constraint(oses, versions) ==
  IF ~oses.some
  THEN IF ~versions.some
       THEN None
       ELSE constraint_string(constraint_to_string(versions, FALSE), FALSE)
  ELSE IF ~versions.some
       THEN constraint_string(constraint_to_string(oses, FALSE), FALSE)
       ELSE constraint_string(
              constraint_to_string(versions, TRUE) \o <<Tok("and", "")>>
                \o constraint_to_string(oses, TRUE), FALSE)

\* One element of all_constraints: "req==ver; marker", or "req==ver" when
\* the combined constraint is None or empty.
Line(r, pkg_version, combined) ==
  [req |-> r, ver |-> pkg_version,
   marker |-> IF combined.some /\ combined.constraint # <<>>
              THEN combined.constraint ELSE <<>>]

----------------------------------------------------------------------------
\* get_reqs

\* The reverse map of one requirement: (python version, os) -> pkg versions.
ReverseMap(rq) ==
  [k \in {<<fp.py_version, fp.os>> : fp \in UNION {rq[v] : v \in DOMAIN rq}} |->
     {v \in DOMAIN rq : \E fp \in rq[v] : <<fp.py_version, fp.os>> = k}]

\* min(reverse_map[k], key=packaging.version.parse)
min_ver(pkg_versions) ==
  CHOOSE v \in pkg_versions : \A u \in pkg_versions : VersionLe(parse(v), parse(u))

\* A resolver whose removal never takes effect.
Removes_nothing(file_parts, pkg_version, k, lowest) == FALSE

\* Whether the resolver removes file_parts from pkg_version for the
\* conflicting key k.
Removes(file_parts, pkg_version, k, lowest) ==
  file_parts.os = k[2] /\ pkg_version # lowest

\* The two inner loops of the resolver for one conflicting key k.
RemoveFor(rq, k, lowest) ==
  [v \in DOMAIN rq |-> {fp \in rq[v] : ~Removes(fp, v, k, lowest)}]

\* The resolver's loop over the conflicting keys, visited in the given order.
RECURSIVE ResolveInOrder(_, _, _)
ResolveInOrder(rq, rm, order) ==
  IF order = <<>>
  THEN rq
  ELSE ResolveInOrder(RemoveFor(rq, Head(order), min_ver(rm[Head(order)])),
                      rm, Tail(order))

\* py_version_map of one package version: python version -> os set.
PyVersionMap(file_parts_set) ==
  [py \in {fp.py_version : fp \in file_parts_set} |->
     {fp.os : fp \in {g \in file_parts_set : g.py_version = py}}]

\* The os sets get_reqs iterates for one requirement, by (pkg version,
\* python version).
OsSets(rq) ==
  [k \in UNION {{<<v, py>> : py \in DOMAIN PyVersionMap(rq[v])} : v \in DOMAIN rq} |->
     PyVersionMap(rq[k[1]])[k[2]]]

\* Every choice of an iteration order for each of the sets of S with key in K.
RECURSIVE IterOrders(_, _)
IterOrders(K, S) ==
  IF K = {}
  THEN {<<>>}
  ELSE LET k == CHOOSE x \in K : TRUE
       IN {(k :> o) @@ f : o \in Perms(S[k]), f \in IterOrders(K \ {k}, S)}

\* The keys of OsSets(rq) whose set os_constraint iterates: it returns
\* before the iteration when the set is as large as all_oses.
Iterated(rq, py_version_oses) ==
  LET S == OsSets(rq)
  IN {k \in DOMAIN S : Cardinality(S[k]) # Cardinality(py_version_oses[k[2]])}

\* os_constraints of every package version of one requirement:
\* os constraint -> python versions, each iterated os set in the order it says.
OsConstraints(rq, py_version_oses, it) ==
  [v \in DOMAIN rq |->
     LET pvm == PyVersionMap(rq[v])
         oses(py) == IF <<v, py>> \in DOMAIN it
                     THEN it[<<v, py>>]
                     ELSE CHOOSE o \in Perms(pvm[py]) : TRUE
         key(py) == os_constraint(oses(py), py_version_oses[py])
     IN [c \in {key(py) : py \in DOMAIN pvm} |->
           {py \in DOMAIN pvm : key(py) = c}]]

\* The lines appended for the groups in pairs (pkg version, os constraint).
RECURSIVE LinesBag(_, _, _, _)
LinesBag(pairs, r, oc, all_py_versions) ==
  IF pairs = {}
  THEN EmptyBag
  ELSE LET p == CHOOSE x \in pairs : TRUE
           py_version_constraint == version_range(oc[p[1]][p[2]], all_py_versions)
       IN SetToBag({Line(r, p[1], combined_constraint(p[2], py_version_constraint))})
            (+) LinesBag(pairs \ {p}, r, oc, all_py_versions)

GroupPairs(oc) == UNION {{<<v, c>> : c \in DOMAIN oc[v]} : v \in DOMAIN oc}

\* make_req_files has read every file: the first call of get_reqs begins.
EndOfFiles ==
  /\ pc = "collect"
  /\ pc' = "get_reqs"
  /\ kind' = "tests"
  /\ todo' = DOMAIN meta["tests"].reqs
  /\ UNCHANGED <<nread, meta, req, reverse_map, os_constraints, all_constraints,
                 out, written, err>>

\* One iteration of "for req in reqs", up to the building of os_constraints:
\* the reverse map, the resolution of conflicts, the grouping by os constraint.
Group(r) ==
  /\ pc = "get_reqs"
  /\ r \in todo
  /\ LET rq == meta[kind].reqs[r]
         rm == ReverseMap(rq)
         conflicts == {k \in DOMAIN rm : Cardinality(rm[k]) > 1}
     IN \E order \in Perms(conflicts) :
          LET resolved == ResolveInOrder(rq, rm, order)
              os_sets == OsSets(resolved)
          IN \E it \in IterOrders(Iterated(resolved, meta[kind].py_version_oses),
                                   os_sets) :
               /\ meta' = [meta EXCEPT ![kind].reqs[r] = resolved]
               /\ reverse_map' = rm
               /\ os_constraints' =
                    OsConstraints(resolved, meta[kind].py_version_oses, it)
  /\ req' = r
  /\ todo' = todo \ {r}
  /\ pc' = "ranges"
  /\ UNCHANGED <<nread, kind, all_constraints, out, written, err>>

\* The rest of the iteration: version_range and one line for every group.
Ranges ==
  /\ pc = "ranges"
  /\ IF \E p \in GroupPairs(os_constraints) :
          ~inds_contiguous(os_constraints[p[1]][p[2]], meta[kind].all_py_versions)
     THEN Raise("AssertionError", 38, <<>>, <<>>)
     ELSE /\ all_constraints' =
               all_constraints (+) LinesBag(GroupPairs(os_constraints), req,
                                            os_constraints, meta[kind].all_py_versions)
          /\ pc' = "get_reqs"
          /\ UNCHANGED <<nread, meta, kind, todo, req, reverse_map, os_constraints,
                         out, written, err>>

\* get_reqs returns the sorted lines; its locals are gone.
Return ==
  /\ pc = "get_reqs"
  /\ todo = {}
  /\ out' = [out EXCEPT ![kind] = [some |-> TRUE, text |-> all_constraints]]
  /\ all_constraints' = EmptyBag
  /\ req' = ""
  /\ reverse_map' = <<>>
  /\ os_constraints' = <<>>
  /\ IF kind = "tests"
     THEN /\ kind' = "notebooks"
          /\ todo' = DOMAIN meta["notebooks"].reqs
          /\ pc' = "get_reqs"
     ELSE /\ pc' = "write"
          /\ UNCHANGED <<kind, todo>>
  /\ UNCHANGED <<nread, meta, written, err>>

\* __main__ writes lkg.txt and lkg-notebook.txt.
Write ==
  /\ pc = "write"
  /\ written' = [lkg |-> out["tests"], lkg_notebook |-> out["notebooks"]]
  /\ pc' = "done"
  /\ UNCHANGED <<nread, meta, kind, todo, req, reverse_map, os_constraints,
                 all_constraints, out, err>>

Init ==
  /\ pc = "collect"
  /\ nread = 0
  /\ meta = [k \in Kinds |-> EmptyMetadata]
  /\ kind = "tests"
  /\ todo = {}
  /\ req = ""
  /\ reverse_map = <<>>
  /\ os_constraints = <<>>
  /\ all_constraints = EmptyBag
  /\ out = [k \in Kinds |-> NoText]
  /\ written = [lkg |-> NoText, lkg_notebook |-> NoText]
  /\ err = NoError

Next ==
  \/ \E file \in FileNames, line \in Lines : ReadLine(file, line)
  \/ EndOfFiles
  \/ \E r \in todo : Group(r)
  \/ Ranges
  \/ Return
  \/ Write

Spec == Init /\ [][Next]_vars

----------------------------------------------------------------------------
\* get_reqs on its own, from the metadata of a denser job matrix than
\* MaxLines lines give: test jobs of MaxPy Python versions, each of which ran
\* on ubuntu only or on the three operating systems; "bar" is pinned by every
\* job that ran and "foo" by some of them.

MatrixPys == {VersionStr[<<3, 7 + i>>] : i \in 1..MaxPy}

RanChoices == {{"ubuntu"}, OSes}

PinnedChoices == {{}, {"ubuntu"}, {"macos"}, {"ubuntu", "macos"}, OSes}

MatrixFile(o, p) == <<"tests", o, "latest", p, "a", "requirements.txt">>

\* The loop of make_req_files over the given (file, line) pairs, none of
\* which raises.
RECURSIVE Collected(_)
Collected(reads) ==
  IF reads = {}
  THEN [k \in Kinds |-> EmptyMetadata]
  ELSE LET rd == CHOOSE x \in reads : TRUE
           fm == file_match(rd[1])
           match == req_match(rd[2])
           k == IF fm.group2 THEN "tests" ELSE "notebooks"
           file_parts == FileParts(fm.os, parse(fm.py), fm.type)
       IN [Collected(reads \ {rd}) EXCEPT
             ![k] = AddReq(AddFileParts(@, file_parts),
                           match.group1, match.group2, file_parts)]

ReqsInit ==
  \E ran \in [MatrixPys -> RanChoices] :
  \E pinned \in {f \in [MatrixPys -> PinnedChoices] :
                   \A p \in MatrixPys : f[p] \subseteq ran[p]} :
    /\ pc = "get_reqs"
    /\ nread = 0
    /\ meta = Collected(
                {<<MatrixFile(e[1], e[2]), <<"bar", "==", "2.0">>>> :
                   e \in {x \in OSes \X MatrixPys : x[1] \in ran[x[2]]}}
                \cup {<<MatrixFile(e[1], e[2]), <<"foo", "==", "1.9">>>> :
                        e \in {x \in OSes \X MatrixPys : x[1] \in pinned[x[2]]}})
    /\ kind = "tests"
    /\ todo = DOMAIN meta["tests"].reqs
    /\ req = ""
    /\ reverse_map = <<>>
    /\ os_constraints = <<>>
    /\ all_constraints = EmptyBag
    /\ out = [k \in Kinds |-> NoText]
    /\ written = [lkg |-> NoText, lkg_notebook |-> NoText]
    /\ err = NoError

ReqsNext ==
  \/ \E r \in todo : Group(r)
  \/ Ranges
  \/ Return
  \/ Write

ReqsSpec == ReqsInit /\ [][ReqsNext]_vars

----------------------------------------------------------------------------
\* What the emitted texts mean: the environment markers of PEP 508, which
\* pip evaluates. "or" binds weaker than "and"; python_version comparisons
\* compare versions; an environment is [os, py_version].

AtomHolds(tok, env) ==
  CASE tok.k = "python_version<=" -> VersionLe(env.py_version, parse(tok.a))
    [] tok.k = "<=python_version" -> VersionLe(parse(tok.a), env.py_version)
    [] tok.k = "python_version==" -> env.py_version = parse(tok.a)
    [] tok.k = "platform_system==" -> platform_map[env.os] = tok.a
    [] OTHER -> FALSE

\* Each parser returns the value of the longest expression of its kind that
\* starts at token i, and the index of the token after it.
RECURSIVE MarkerOr(_, _, _), MarkerAnd(_, _, _), MarkerExpr(_, _, _)
MarkerExpr(toks, i, env) ==
  IF toks[i].k = "("
  THEN LET inner == MarkerOr(toks, i + 1, env)
       IN [val |-> inner.val, pos |-> inner.pos + 1]
  ELSE [val |-> AtomHolds(toks[i], env), pos |-> i + 1]

MarkerAnd(toks, i, env) ==
  LET left == MarkerExpr(toks, i, env)
  IN IF left.pos <= Len(toks) /\ toks[left.pos].k = "and"
     THEN LET right == MarkerAnd(toks, left.pos + 1, env)
          IN [val |-> left.val /\ right.val, pos |-> right.pos]
     ELSE left

MarkerOr(toks, i, env) ==
  LET left == MarkerAnd(toks, i, env)
  IN IF left.pos <= Len(toks) /\ toks[left.pos].k = "or"
     THEN LET right == MarkerOr(toks, left.pos + 1, env)
          IN [val |-> left.val \/ right.val, pos |-> right.pos]
     ELSE left

\* Whether pip installs the line in the environment; a line without marker
\* is installed everywhere.
Satisfies(env, line) ==
  line.marker = <<>> \/ MarkerOr(line.marker, 1, env).val

\* The observed environments of a job kind.
ObservedEnvs(k) ==
  {[os |-> fp.os, py_version |-> fp.py_version] : fp \in meta[k].all_file_parts}

\* The environments of the observation set of a package version.
ObservationEnvs(k, r, v) ==
  {[os |-> fp.os, py_version |-> fp.py_version] : fp \in meta[k].reqs[r][v]}

\* The lines to judge in a state, and the requirements they are complete
\* for: between two iterations of the loop of get_reqs the lines appended so
\* far, at the end of the run the two files written.
EmittedLines(k) ==
  IF pc = "get_reqs" /\ k = kind THEN BagToSet(all_constraints)
  ELSE IF pc = "done"
  THEN BagToSet(IF k = "tests" THEN written.lkg.text ELSE written.lkg_notebook.text)
  ELSE {}

Processed(k) ==
  IF pc = "get_reqs" /\ k = kind THEN DOMAIN meta[k].reqs \ todo
  ELSE IF pc = "done" THEN DOMAIN meta[k].reqs
  ELSE {}

LinesOf(k, r, v) == {l \in EmittedLines(k) : l.req = r /\ l.ver = v}

HasToken(l, k) == \E i \in 1..Len(l.marker) : l.marker[i].k = k

\* C1: for every package version with a non-empty observation set after the
\* resolution pass, the observed environments of the job kind that satisfy
\* one of the lines emitted for it are exactly those of its observation set.
CoverageLaw ==
  \A k \in Kinds : \A r \in Processed(k) : \A v \in DOMAIN meta[k].reqs[r] :
    meta[k].reqs[r][v] # {} =>
      {e \in ObservedEnvs(k) : \E l \in LinesOf(k, r, v) : Satisfies(e, l)}
        = ObservationEnvs(k, r, v)

\* Both files are written, and some package version has two lines, one of
\* them with an "or" of operating systems and one with a two-sided range.
CoverageWitness ==
  /\ pc = "done"
  /\ \E l1, l2 \in EmittedLines("tests") :
       /\ l1 # l2 /\ l1.req = l2.req /\ l1.ver = l2.ver
       /\ HasToken(l1, "or")
       /\ HasToken(l2, "<=python_version") /\ HasToken(l2, "python_version<=")

\* C2: the environments that satisfy two distinct emitted lines of one
\* package are disjoint.
Disjointness ==
  \A k \in Kinds : \A l1, l2 \in EmittedLines(k) :
    (l1 # l2 /\ l1.req = l2.req /\ l1.req \in Processed(k)) =>
      ~\E e \in ObservedEnvs(k) : Satisfies(e, l1) /\ Satisfies(e, l2)

\* The package had two versions at one environment, and lines of two of its
\* versions have been emitted.
DisjointnessWitness ==
  /\ pc = "get_reqs"
  /\ \E key \in DOMAIN reverse_map : Cardinality(reverse_map[key]) > 1
  /\ \E l1, l2 \in EmittedLines(kind) : l1.req = req /\ l2.req = req /\ l1.ver # l2.ver

\* C3 (as claimed): after the resolution pass of a requirement, every version
\* observed at an environment without conflict still has that environment in
\* its observation set.
ResolutionKeepsOtherEnvs ==
  pc = "ranges" =>
    \A key \in DOMAIN reverse_map :
      Cardinality(reverse_map[key]) = 1 =>
        \A v \in reverse_map[key] :
          \E fp \in meta[kind].reqs[req][v] : <<fp.py_version, fp.os>> = key

\* C4 (as claimed): after the resolution pass, every environment the package
\* was observed in is in the observation set of exactly one version, the
\* lowest one observed there.
OneVersionPerEnv ==
  pc = "ranges" =>
    \A key \in DOMAIN reverse_map :
      {v \in DOMAIN meta[kind].reqs[req] :
         \E fp \in meta[kind].reqs[req][v] : <<fp.py_version, fp.os>> = key}
        = {min_ver(reverse_map[key])}

\* C5 (as claimed): a line of a file whose name matches neither pattern never
\* makes the run fail.
UnmatchedFileSkipped ==
  ~(pc = "failed" /\ err.exc = "AttributeError" /\ ~file_match(err.file).some)

\* C6 (as claimed): a line of a classified file that is not name==version
\* never makes the run fail.
MalformedLineIgnored ==
  ~(/\ pc = "failed" /\ err.exc = "AttributeError"
    /\ file_match(err.file).some /\ ~req_match(err.line).some)

\* Whether S is a run of the sorted all_py_versions: no observed Python
\* version outside S lies between two versions of S.
IsRun(S, all_py_versions) ==
  \A u \in all_py_versions \ S :
    ~\E a, b \in S : VersionLt(a, u) /\ VersionLt(u, b)

\* C7: when the Python versions of one os constraint of a package version are
\* no run of the sorted observed Python versions, the next step is the failed
\* assertion: no text is returned and no file written, then or later.
AbortsOnGap ==
  [][/\ (pc = "ranges" /\ \E p \in GroupPairs(os_constraints) :
           ~IsRun(os_constraints[p[1]][p[2]], meta[kind].all_py_versions))
         => /\ pc' = "failed" /\ err'.exc = "AssertionError"
            /\ \A k \in Kinds : ~out'[k].some
            /\ ~written'.lkg.some /\ ~written'.lkg_notebook.some
     /\ pc = "failed" => (pc' = "failed" /\ written' = written /\ out' = out)]_vars

AbortsOnGapWitness ==
  pc = "failed" /\ err.exc = "AssertionError"

\* C8 (as claimed): what one iteration of the loop of get_reqs leaves, the
\* observation sets after the resolution and the lines it appends, is the
\* same for every order in which the conflicting environments are visited
\* and every order in which the os sets are iterated.
OrderIndependent ==
  [][(pc = "get_reqs" /\ pc' = "ranges") =>
       LET rq == meta[kind].reqs[req']
           rm == ReverseMap(rq)
           after == meta'[kind].reqs[req']
           pvo == meta[kind].py_version_oses
           all == meta[kind].all_py_versions
       IN /\ \A order \in Perms({key \in DOMAIN rm : Cardinality(rm[key]) > 1}) :
               ResolveInOrder(rq, rm, order) = after
          /\ \A it \in IterOrders(Iterated(after, pvo), OsSets(after)) :
               LET oc == OsConstraints(after, pvo, it)
               IN LinesBag(GroupPairs(oc), req', oc, all)
                    = LinesBag(GroupPairs(os_constraints'), req', os_constraints', all)]_vars

\* C9: the bare line of a package version is emitted exactly when its
\* observation set covers every observed environment of the job kind.
NoConstraintCorrect ==
  \A k \in Kinds : \A r \in Processed(k) : \A v \in DOMAIN meta[k].reqs[r] :
    (\E l \in LinesOf(k, r, v) : l.marker = <<>>)
      <=> ObservationEnvs(k, r, v) = ObservedEnvs(k)

\* Both files are written, one package has a bare line, and another has
\* lines with markers only although it was seen on every Python version.
NoConstraintWitness ==
  /\ pc = "done"
  /\ \E l \in EmittedLines("tests") : l.marker = <<>>
  /\ \E r \in DOMAIN meta["tests"].reqs : \E v \in DOMAIN meta["tests"].reqs[r] :
       /\ {e.py_version : e \in ObservationEnvs("tests", r, v)}
            = meta["tests"].all_py_versions
       /\ Cardinality(meta["tests"].all_py_versions) > 1
       /\ LinesOf("tests", r, v) # {}
       /\ \A l \in LinesOf("tests", r, v) : l.marker # <<>>

\* C10 (as claimed): a two-sided range that is ANDed with an os constraint
\* stands in parentheses.
RangeParenthesized ==
  \A k \in Kinds : \A l \in EmittedLines(k) :
    (/\ HasToken(l, "platform_system==")
     /\ \E i \in 1..(Len(l.marker) - 2) :
          /\ l.marker[i].k = "<=python_version"
          /\ l.marker[i + 1].k = "and"
          /\ l.marker[i + 2].k = "python_version<=")
    => (/\ l.marker[1].k = "("
        /\ l.marker[2].k = "<=python_version"
        /\ l.marker[5].k = ")")

====
